---- MODULE Spec2Model ----
(***************************************************************************)
(* Model of packages/vexide-panic/src/backtrace.rs: Backtrace::capture,    *)
(* Backtrace::try_capture and the Display implementation of Backtrace.     *)
(*                                                                         *)
(* The unwinder (crate::unwind: UnwindContext, UnwindCursor) and the       *)
(* allocator behind Vec are collaborators.  Their results are inputs of    *)
(* the model: the call stack the cursor walks is chosen in Init, and the   *)
(* success or failure of every fallible collaborator call is chosen where  *)
(* the call is made.                                                       *)
(***************************************************************************)
EXTENDS Integers, Sequences, FiniteSets, TLC

VARIABLES
    target,               \* cfg(target_arch) the crate was built for
    overflow_checks,      \* whether the build checks integer overflow
    stack,                \* call stack at the call; stack[1] is try_capture's frame
    pc,                   \* position of control
    context,              \* TRUE once UnwindContext::new() succeeded
    cursor,               \* index in stack of the cursor's current frame, 0 = no cursor
    frames,               \* local `frames` of try_capture
    cap,                  \* capacity of `frames`
    instruction_pointer,  \* local `instruction_pointer` of try_capture
    try_result,           \* what try_capture() returned
    result,               \* what capture() returned
    ops,                  \* collaborator calls made so far, with their results
    out,                  \* what Display::fmt has written to the formatter
    i,                    \* loop index of Display::fmt
    fmt_result            \* what Display::fmt returned

vars == <<target, overflow_checks, stack, pc, context, cursor, frames, cap,
          instruction_pointer, try_result, result, ops, out, i, fmt_result>>

(***************************************************************************)
(* Bounds of the model.                                                    *)
(***************************************************************************)
\* Number of caller frames above try_capture's own frame.
MaxDepth == 3
\* Width of an address in bits (the target's usize, narrowed).
AddrBits == 16

AddrMod == 2 ^ AddrBits

(***************************************************************************)
(* Inputs.                                                                 *)
(***************************************************************************)
Targets == {"arm", "wasm32"}

\* Raw instruction pointers the caller frames may hold.
IPs == {0, 4096, 8192}

\* Instruction pointer of try_capture's own activation.
SelfIP == 3 * 4096

\* Failure reasons of the unwinder.
UnwindErrors == {"BadFrame", "NoInfo"}

Frame == [ip : IPs, signal : BOOLEAN]

SelfFrame == [ip |-> SelfIP, signal |-> FALSE]

RECURSIVE SeqsUpTo(_, _)
SeqsUpTo(S, n) ==
    IF n = 0 THEN {<<>>}
    ELSE LET shorter == SeqsUpTo(S, n - 1)
         IN  shorter \cup {Append(s, x) : s \in {t \in shorter : Len(t) = n - 1}, x \in S}

Stacks == {<<SelfFrame>> \o callers : callers \in SeqsUpTo(Frame, MaxDepth)}

(***************************************************************************)
(* Values.                                                                 *)
(***************************************************************************)
NoResult == [tag |-> "None", frames |-> <<>>, err |-> ""]
Ok(fs) == [tag |-> "Ok", frames |-> fs, err |-> ""]
Err(e) == [tag |-> "Err", frames |-> <<>>, err |-> e]

NoBacktrace == [tag |-> "None", frames |-> <<>>]
Backtrace(fs) == [tag |-> "Backtrace", frames |-> fs]

\* One collaborator call: its name, whether it succeeded (for step and
\* is_signal_frame: the boolean returned), the value and the error returned.
Call(op, ok, val, err) == [op |-> op, ok |-> ok, val |-> val, err |-> err]

(***************************************************************************)
(* The unwinder, as the core uses it.                                      *)
(***************************************************************************)
\* cursor.step(): TRUE iff there is a caller frame to move to.
CursorStep(c, st) == c < Len(st)

\* cursor.get_register(UNW_REG_IP) when it succeeds.
CursorIP(c, st) == st[c].ip

\* cursor.is_signal_frame()
CursorIsSignalFrame(c, st) == st[c].signal

(***************************************************************************)
(* Vec growth: a push into a full Vec reallocates.                         *)
(***************************************************************************)
NeedsGrow(len, c) == len = c

GrownCap(c) == IF c = 0 THEN 4 ELSE 2 * c

(***************************************************************************)
(* `instruction_pointer -= 1` on an unsigned machine word without the      *)
(* overflow check.                                                         *)
(***************************************************************************)
WrappingDec(ip) == IF ip = 0 THEN AddrMod - 1 ELSE ip - 1

(***************************************************************************)
(* Formatting.                                                             *)
(***************************************************************************)
DecDigits == <<"0", "1", "2", "3", "4", "5", "6", "7", "8", "9">>

HexDigits == <<"0", "1", "2", "3", "4", "5", "6", "7", "8", "9",
               "a", "b", "c", "d", "e", "f">>

\* {i}: decimal
RECURSIVE ToDec(_)
ToDec(n) ==
    IF n < 10 THEN DecDigits[n + 1]
    ELSE ToDec(n \div 10) \o DecDigits[(n % 10) + 1]

\* lower-case hexadecimal without leading zeros
RECURSIVE ToHex(_)
ToHex(n) ==
    IF n < 16 THEN HexDigits[n + 1]
    ELSE ToHex(n \div 16) \o HexDigits[(n % 16) + 1]

\* {:>w}: right-align in a field of at least w characters
RECURSIVE PadLeft(_, _)
PadLeft(s, w) == IF Len(s) >= w THEN s ELSE PadLeft(" " \o s, w)

\* {:?} of a raw pointer
PointerDebug(p) == "0x" \o ToHex(p)

IndexWidth == 3

Header == "stack backtrace:\n"

FrameLine(k, frame) ==
    PadLeft(ToDec(k), IndexWidth) \o ": " \o PointerDebug(frame) \o "\n"

Note == "note: Use a symbolizer to convert stack frames to human-readable function names."

(***************************************************************************)
(* Initial state: a build, a call stack, nothing run yet.                  *)
(***************************************************************************)
Init ==
    /\ target \in Targets
    /\ overflow_checks \in BOOLEAN
    /\ stack \in Stacks
    /\ pc = "start"
    /\ context = FALSE
    /\ cursor = 0
    /\ frames = <<>>
    /\ cap = 0
    /\ instruction_pointer = 0
    /\ try_result = NoResult
    /\ result = NoBacktrace
    /\ ops = <<>>
    /\ out = <<>>
    /\ i = 0
    /\ fmt_result = "None"

build == <<target, overflow_checks, stack>>
fmt_vars == <<out, i, fmt_result>>

\* Variant of Capture that runs the unwinding algorithm on every target.
Capture_AlwaysUnwinds ==
    /\ pc = "start"
    /\ pc' = "new_context"
    /\ UNCHANGED <<target, overflow_checks, stack, context, cursor, frames, cap,
                   instruction_pointer, try_result, result, ops, out, i, fmt_result>>

(***************************************************************************)
(* Backtrace::capture(), entry.                                            *)
(***************************************************************************)
Capture ==
    /\ pc = "start"
    /\ IF target = "arm"
       THEN /\ pc' = "new_context"
            /\ UNCHANGED result
       ELSE /\ result' = Backtrace(<<>>)
            /\ pc' = "done"
    /\ UNCHANGED <<build, context, cursor, frames, cap, instruction_pointer,
                   try_result, ops, fmt_vars>>

(***************************************************************************)
(* try_capture(): let mut context = UnwindContext::new()?;                 *)
(*                let mut frames = Vec::new() is folded in: the Vec starts *)
(*                empty with no capacity.                                  *)
(***************************************************************************)
NewContext ==
    /\ pc = "new_context"
    /\ \/ /\ ops' = Append(ops, Call("new_context", TRUE, 0, ""))
          /\ context' = TRUE
          /\ pc' = "new_cursor"
          /\ UNCHANGED try_result
       \/ \E e \in UnwindErrors :
          /\ ops' = Append(ops, Call("new_context", FALSE, 0, e))
          /\ try_result' = Err(e)
          /\ pc' = "unwrap_or"
          /\ UNCHANGED context
    /\ UNCHANGED <<build, cursor, frames, cap, instruction_pointer, result, fmt_vars>>

\* Variant of NewCursor whose loop reads the cursor's first frame before stepping.
NewCursor_NoSkip ==
    /\ pc = "new_cursor"
    /\ \/ /\ ops' = Append(ops, Call("new_cursor", TRUE, 0, ""))
          /\ cursor' = 1
          /\ pc' = "get_register"
          /\ UNCHANGED try_result
       \/ \E e \in UnwindErrors :
          /\ ops' = Append(ops, Call("new_cursor", FALSE, 0, e))
          /\ try_result' = Err(e)
          /\ pc' = "unwrap_or"
          /\ UNCHANGED cursor
    /\ UNCHANGED <<target, overflow_checks, stack, context, frames, cap,
                   instruction_pointer, result, out, i, fmt_result>>

(***************************************************************************)
(* try_capture(): let mut cursor = UnwindCursor::new(&mut context)?;       *)
(***************************************************************************)
NewCursor ==
    /\ pc = "new_cursor"
    /\ \/ /\ ops' = Append(ops, Call("new_cursor", TRUE, 0, ""))
          /\ cursor' = 1
          /\ pc' = "step"
          /\ UNCHANGED try_result
       \/ \E e \in UnwindErrors :
          /\ ops' = Append(ops, Call("new_cursor", FALSE, 0, e))
          /\ try_result' = Err(e)
          /\ pc' = "unwrap_or"
          /\ UNCHANGED cursor
    /\ UNCHANGED <<build, context, frames, cap, instruction_pointer, result, fmt_vars>>

(***************************************************************************)
(* try_capture(): while cursor.step() { ... }  Ok(Self { frames })         *)
(***************************************************************************)
Step ==
    /\ pc = "step"
    /\ ops' = Append(ops, Call("step", CursorStep(cursor, stack), 0, ""))
    /\ IF CursorStep(cursor, stack)
       THEN /\ cursor' = cursor + 1
            /\ pc' = "get_register"
            /\ UNCHANGED try_result
       ELSE /\ try_result' = Ok(frames)
            /\ pc' = "unwrap_or"
            /\ UNCHANGED cursor
    /\ UNCHANGED <<build, context, frames, cap, instruction_pointer, result, fmt_vars>>

\* Variant of GetRegister that leaves the loop with the frames read so far
\* when the read fails.
GetRegister_PartialResult ==
    /\ pc = "get_register"
    /\ \/ /\ ops' = Append(ops, Call("get_register", TRUE, CursorIP(cursor, stack), ""))
          /\ instruction_pointer' = CursorIP(cursor, stack)
          /\ pc' = "adjust"
          /\ UNCHANGED try_result
       \/ \E e \in UnwindErrors :
          /\ ops' = Append(ops, Call("get_register", FALSE, 0, e))
          /\ try_result' = Ok(frames)
          /\ pc' = "unwrap_or"
          /\ UNCHANGED instruction_pointer
    /\ UNCHANGED <<target, overflow_checks, stack, context, cursor, frames, cap,
                   result, out, i, fmt_result>>

(***************************************************************************)
(* try_capture(): let mut instruction_pointer =                            *)
(*                    cursor.get_register(sys::UNW_REG_IP)?;               *)
(***************************************************************************)
GetRegister ==
    /\ pc = "get_register"
    /\ \/ /\ ops' = Append(ops, Call("get_register", TRUE, CursorIP(cursor, stack), ""))
          /\ instruction_pointer' = CursorIP(cursor, stack)
          /\ pc' = "adjust"
          /\ UNCHANGED try_result
       \/ \E e \in UnwindErrors :
          /\ ops' = Append(ops, Call("get_register", FALSE, 0, e))
          /\ try_result' = Err(e)
          /\ pc' = "unwrap_or"
          /\ UNCHANGED instruction_pointer
    /\ UNCHANGED <<build, context, cursor, frames, cap, result, fmt_vars>>

\* Variant of Adjust with the signal-frame test inverted.
Adjust_Inverted ==
    /\ pc = "adjust"
    /\ ops' = Append(ops, Call("is_signal_frame", CursorIsSignalFrame(cursor, stack), 0, ""))
    /\ IF CursorIsSignalFrame(cursor, stack)
       THEN IF instruction_pointer = 0 /\ overflow_checks
            THEN /\ pc' = "panicked"
                 /\ UNCHANGED instruction_pointer
            ELSE /\ instruction_pointer' = WrappingDec(instruction_pointer)
                 /\ pc' = "push"
       ELSE /\ pc' = "push"
            /\ UNCHANGED instruction_pointer
    /\ UNCHANGED <<target, overflow_checks, stack, context, cursor, frames, cap,
                   try_result, result, out, i, fmt_result>>

(***************************************************************************)
(* try_capture(): if !cursor.is_signal_frame() { instruction_pointer -= 1 }*)
(* With overflow checks the subtraction panics at 0, without them it wraps.*)
(***************************************************************************)
Adjust ==
    /\ pc = "adjust"
    /\ ops' = Append(ops, Call("is_signal_frame", CursorIsSignalFrame(cursor, stack), 0, ""))
    /\ IF ~CursorIsSignalFrame(cursor, stack)
       THEN IF instruction_pointer = 0 /\ overflow_checks
            THEN /\ pc' = "panicked"
                 /\ UNCHANGED instruction_pointer
            ELSE /\ instruction_pointer' = WrappingDec(instruction_pointer)
                 /\ pc' = "push"
       ELSE /\ pc' = "push"
            /\ UNCHANGED instruction_pointer
    /\ UNCHANGED <<build, context, cursor, frames, cap, try_result, result, fmt_vars>>

\* Variant of Push that inserts at the front of the Vec.
Push_Front ==
    /\ pc = "push"
    /\ IF NeedsGrow(Len(frames), cap)
       THEN \/ /\ ops' = Append(ops, Call("alloc", TRUE, 0, ""))
               /\ cap' = GrownCap(cap)
               /\ frames' = <<instruction_pointer>> \o frames
               /\ pc' = "step"
            \/ /\ ops' = Append(ops, Call("alloc", FALSE, 0, ""))
               /\ pc' = "aborted"
               /\ UNCHANGED <<frames, cap>>
       ELSE /\ frames' = <<instruction_pointer>> \o frames
            /\ pc' = "step"
            /\ UNCHANGED <<ops, cap>>
    /\ UNCHANGED <<target, overflow_checks, stack, context, cursor,
                   instruction_pointer, try_result, result, out, i, fmt_result>>

(***************************************************************************)
(* try_capture(): frames.push(instruction_pointer as *const c_void);       *)
(* A push into a full Vec allocates; a failed allocation ends in           *)
(* handle_alloc_error, which does not return.                              *)
(***************************************************************************)
Push ==
    /\ pc = "push"
    /\ IF NeedsGrow(Len(frames), cap)
       THEN \/ /\ ops' = Append(ops, Call("alloc", TRUE, 0, ""))
               /\ cap' = GrownCap(cap)
               /\ frames' = Append(frames, instruction_pointer)
               /\ pc' = "step"
            \/ /\ ops' = Append(ops, Call("alloc", FALSE, 0, ""))
               /\ pc' = "aborted"
               /\ UNCHANGED <<frames, cap>>
       ELSE /\ frames' = Append(frames, instruction_pointer)
            /\ pc' = "step"
            /\ UNCHANGED <<ops, cap>>
    /\ UNCHANGED <<build, context, cursor, instruction_pointer, try_result, result, fmt_vars>>

(***************************************************************************)
(* capture(): Self::try_capture().unwrap_or(Self { frames: Vec::new() })   *)
(***************************************************************************)
UnwrapOr ==
    /\ pc = "unwrap_or"
    /\ result' = IF try_result.tag = "Ok"
                 THEN Backtrace(try_result.frames)
                 ELSE Backtrace(<<>>)
    /\ pc' = "done"
    /\ UNCHANGED <<build, context, cursor, frames, cap, instruction_pointer,
                   try_result, ops, fmt_vars>>

(***************************************************************************)
(* Display::fmt: writeln!(f, "stack backtrace:")?;                         *)
(***************************************************************************)
FmtHeader ==
    /\ pc = "done"
    /\ \/ /\ out' = Append(out, Header)
          /\ i' = 0
          /\ pc' = "fmt_frames"
          /\ UNCHANGED fmt_result
       \/ /\ fmt_result' = "Err"
          /\ pc' = "fmt_done"
          /\ UNCHANGED <<out, i>>
    /\ UNCHANGED <<build, context, cursor, frames, cap, instruction_pointer,
                   try_result, result, ops>>

\* Variant of FmtFrame that numbers the frames from 1.
FmtFrame_OneBased ==
    /\ pc = "fmt_frames"
    /\ i < Len(result.frames)
    /\ \/ /\ out' = Append(out, FrameLine(i + 1, result.frames[i + 1]))
          /\ i' = i + 1
          /\ UNCHANGED <<pc, fmt_result>>
       \/ /\ fmt_result' = "Err"
          /\ pc' = "fmt_done"
          /\ UNCHANGED <<out, i>>
    /\ UNCHANGED <<target, overflow_checks, stack, context, cursor, frames, cap,
                   instruction_pointer, try_result, result, ops>>

(***************************************************************************)
(* Display::fmt: for (i, frame) in self.frames.iter().enumerate() {        *)
(*                   writeln!(f, "{i:>3}: {:?}", frame)?; }                *)
(***************************************************************************)
FmtFrame ==
    /\ pc = "fmt_frames"
    /\ i < Len(result.frames)
    /\ \/ /\ out' = Append(out, FrameLine(i, result.frames[i + 1]))
          /\ i' = i + 1
          /\ UNCHANGED <<pc, fmt_result>>
       \/ /\ fmt_result' = "Err"
          /\ pc' = "fmt_done"
          /\ UNCHANGED <<out, i>>
    /\ UNCHANGED <<build, context, cursor, frames, cap, instruction_pointer,
                   try_result, result, ops>>

(***************************************************************************)
(* Display::fmt: write!(f, "note: ...")?; Ok(())                           *)
(***************************************************************************)
FmtNote ==
    /\ pc = "fmt_frames"
    /\ i = Len(result.frames)
    /\ \/ /\ out' = Append(out, Note)
          /\ fmt_result' = "Ok"
       \/ /\ fmt_result' = "Err"
          /\ UNCHANGED out
    /\ pc' = "fmt_done"
    /\ UNCHANGED <<build, context, cursor, frames, cap, instruction_pointer,
                   try_result, result, ops, i>>

Next ==
    \/ Capture
    \/ NewContext
    \/ NewCursor
    \/ Step
    \/ GetRegister
    \/ Adjust
    \/ Push
    \/ UnwrapOr
    \/ FmtHeader
    \/ FmtFrame
    \/ FmtNote

Spec == Init /\ [][Next]_vars

\* The steps of capture() and try_capture(), without the rendering.
CaptureNext ==
    \/ Capture
    \/ NewContext
    \/ NewCursor
    \/ Step
    \/ GetRegister
    \/ Adjust
    \/ Push
    \/ UnwrapOr

(***************************************************************************)
(* Vocabulary of the properties.                                           *)
(***************************************************************************)
Range(s) == {s[k] : k \in DOMAIN s}

IsStepTrue(c) == c.op = "step" /\ c.ok
IsStepFalse(c) == c.op = "step" /\ ~c.ok
IsRead(c) == c.op = "get_register" /\ c.ok
IsSignalCheck(c) == c.op = "is_signal_frame"
IsUnwindFailure(c) == c.op \in {"new_context", "new_cursor", "get_register"} /\ ~c.ok
IsAllocFailure(c) == c.op = "alloc" /\ ~c.ok

StepsTrue == SelectSeq(ops, IsStepTrue)
Reads == SelectSeq(ops, IsRead)
SignalChecks == SelectSeq(ops, IsSignalCheck)

\* capture() has returned.
Returned == result.tag = "Backtrace"

\* Control has left capture() without a return value.
Panicked == pc = "panicked"
Aborted == pc = "aborted"

(***************************************************************************)
(* C1: capture() never fails: whatever the collaborators answer, capture() *)
(* returns a Backtrace; it is empty when try_capture() returned an error   *)
(* and holds exactly try_capture()'s frames when try_capture() succeeded.  *)
(***************************************************************************)
C1_CaptureAlwaysReturnsBacktrace ==
    /\ (pc # "start" /\ ~ENABLED CaptureNext) => Returned
    /\ (Returned /\ try_result.tag = "Err") => result.frames = <<>>
    /\ (Returned /\ try_result.tag = "Ok") => result.frames = try_result.frames

\* The part of C1 about the conversion of try_capture()'s result alone.
C1_UnwrapOrConversion ==
    Returned =>
        /\ try_result.tag = "Err" => result.frames = <<>>
        /\ try_result.tag = "Ok" => result.frames = try_result.frames
        /\ try_result.tag = "None" => target = "wasm32"

C1_Witness_ErrorSwallowed ==
    /\ Returned
    /\ try_result.tag = "Err"
    /\ Len(frames) >= 1
    /\ result.frames = <<>>

(***************************************************************************)
(* C2: try_capture() is fail-fast with no partial result: when context     *)
(* creation, cursor creation or a read of the instruction pointer fails,   *)
(* try_capture() returns that very error, returns no frames, and makes no  *)
(* further collaborator call.                                              *)
(***************************************************************************)
C2_FailFastNoPartialResult ==
    \A k \in DOMAIN ops :
        IsUnwindFailure(ops[k]) =>
            /\ k = Len(ops)
            /\ try_result.tag = "Err"
            /\ try_result.err = ops[k].err
            /\ try_result.frames = <<>>
            /\ pc \notin {"step", "get_register", "adjust", "push", "new_cursor"}

C2_Witness_LateReadFailure ==
    /\ Len(ops) >= 1
    /\ ops[Len(ops)].op = "get_register"
    /\ ~ops[Len(ops)].ok
    /\ Len(frames) >= 2
    /\ try_result.tag = "Err"

(***************************************************************************)
(* C3: in a successful try_capture() the address recorded for a frame is   *)
(* the raw instruction pointer minus one when the frame is not a signal    *)
(* frame and the raw instruction pointer itself when it is.                *)
(***************************************************************************)
C3_AddressAdjustment ==
    try_result.tag = "Ok" =>
        /\ Len(Reads) = Len(try_result.frames)
        /\ Len(SignalChecks) = Len(try_result.frames)
        /\ \A k \in 1..Len(try_result.frames) :
              try_result.frames[k] =
                  IF SignalChecks[k].ok
                  THEN Reads[k].val
                  ELSE (Reads[k].val + AddrMod - 1) % AddrMod

C3_Witness_BothKinds ==
    /\ try_result.tag = "Ok"
    /\ \E k \in 1..Len(try_result.frames) : SignalChecks[k].ok
    /\ \E k \in 1..Len(try_result.frames) : ~SignalChecks[k].ok

(***************************************************************************)
(* C4: try_capture()'s own activation frame never appears in the result:   *)
(* the frame the cursor starts on is consumed without being read or        *)
(* recorded, and every frame a successful step reached is recorded.        *)
(***************************************************************************)
C4_OwnFrameExcluded ==
    /\ \A k \in DOMAIN ops :
          (ops[k].op = "new_cursor" /\ k < Len(ops)) => ops[k + 1].op = "step"
    /\ try_result.tag = "Ok" =>
          /\ Len(try_result.frames) = Len(stack) - 1
          /\ Len(try_result.frames) = Len(StepsTrue)
          /\ SelfIP \notin Range(try_result.frames)
          /\ (SelfIP - 1) \notin Range(try_result.frames)

C4_Witness_CallersRecorded ==
    /\ try_result.tag = "Ok"
    /\ Len(stack) >= 3
    /\ Len(try_result.frames) = Len(stack) - 1

(***************************************************************************)
(* C5: capture() never panics and never aborts, whatever the collaborators *)
(* answer (any error, any raw instruction pointer, 0 on a non-signal frame *)
(* included, any stack depth).                                             *)
(***************************************************************************)
C5_NeverPanicsNorAborts == ~Panicked /\ ~Aborted

(***************************************************************************)
(* C6: an allocation failure while the frame sequence grows is a capture   *)
(* failure: try_capture() ends in its error path and capture() returns an  *)
(* empty Backtrace, never an abort.                                        *)
(***************************************************************************)
C6_AllocFailureIsCaptureFailure ==
    (\E k \in DOMAIN ops : IsAllocFailure(ops[k])) =>
        /\ ~Aborted
        /\ try_result.tag = "Err"
        /\ Returned => result.frames = <<>>

(***************************************************************************)
(* C7: rendering a Backtrace of N frames that the sink accepts writes the  *)
(* header, then N lines of which the k-th carries index k and the k-th     *)
(* frame's address, then the note without a line terminator; N = 0 gives   *)
(* header and note; [0x1000, 0x2000] gives header, "0" line, "1" line,     *)
(* note.                                                                   *)
(***************************************************************************)
C7_RenderedText ==
    fmt_result = "Ok" =>
        LET N == Len(result.frames) IN
        /\ Len(out) = N + 2
        /\ out[1] = "stack backtrace:\n"
        /\ \A k \in 0..(N - 1) : out[k + 2] = FrameLine(k, result.frames[k + 1])
        /\ out[N + 2] =
             "note: Use a symbolizer to convert stack frames to human-readable function names."
        /\ N = 0 =>
             out = <<"stack backtrace:\n",
                     "note: Use a symbolizer to convert stack frames to human-readable function names.">>
        /\ result.frames = <<4096, 8192>> =>
             out = <<"stack backtrace:\n",
                     "  0: 0x1000\n",
                     "  1: 0x2000\n",
                     "note: Use a symbolizer to convert stack frames to human-readable function names.">>

C7_Witness_TwoFramesRendered ==
    /\ fmt_result = "Ok"
    /\ result.frames = <<4096, 8192>>
    /\ Len(out) = 4

(***************************************************************************)
(* C8: built for the target without unwinding, capture() returns an empty  *)
(* Backtrace without calling any collaborator; the build target, which     *)
(* alone selects this, never changes at run time.                          *)
(***************************************************************************)
C8_NoUnwindTargetAlwaysEmpty ==
    /\ [](target = "wasm32" =>
            /\ ops = <<>>
            /\ try_result = NoResult
            /\ ~context
            /\ cursor = 0
            /\ pc # "start" => result = Backtrace(<<>>))
    /\ [][target' = target]_vars

C8_Witness_WasmReturned ==
    /\ target = "wasm32"
    /\ Returned
    /\ Len(stack) >= 2

(***************************************************************************)
(* C9: the frames of a successful try_capture() are innermost first, in    *)
(* step order: the k-th address comes from the frame the k-th successful   *)
(* step reached, which is the caller of the previous one; addresses are    *)
(* only appended; there are as many as successful steps.                   *)
(***************************************************************************)
RecordedFor(f) == IF f.signal THEN f.ip ELSE (f.ip + AddrMod - 1) % AddrMod

C9_InnermostFirstStepOrder ==
    /\ [](try_result.tag = "Ok" =>
            /\ Len(try_result.frames) = Len(StepsTrue)
            /\ \A k \in 1..Len(try_result.frames) :
                  try_result.frames[k] = RecordedFor(stack[k + 1]))
    /\ [][\/ frames' = frames
          \/ /\ Len(frames') = Len(frames) + 1
             /\ SubSeq(frames', 1, Len(frames)) = frames]_vars

C9_Witness_DistinctFramesInOrder ==
    /\ try_result.tag = "Ok"
    /\ Len(try_result.frames) = 3
    /\ try_result.frames[1] # try_result.frames[2]
    /\ try_result.frames[2] # try_result.frames[3]
    /\ try_result.frames[1] # try_result.frames[3]

(***************************************************************************)
(* C10: capture always terminates by returning: on a finite stack          *)
(* try_capture() and capture() return, with Ok as soon as a step returns   *)
(* false (no step follows it) or with the error of the first failing       *)
(* collaborator call; the number of steps is bounded by the stack depth.   *)
(***************************************************************************)
C10_TerminatesByReturning ==
    /\ Returned \/ ENABLED CaptureNext
    /\ Len(SelectSeq(ops, LAMBDA c : c.op = "step")) <= Len(stack)
    /\ \A k \in DOMAIN ops : IsStepFalse(ops[k]) => k = Len(ops)
    /\ try_result.tag = "Ok" => (Len(ops) >= 1 /\ IsStepFalse(ops[Len(ops)]))

\* The part of C10 that bounds the walk.
C10_StepsBounded ==
    /\ Len(SelectSeq(ops, LAMBDA c : c.op = "step")) <= Len(stack)
    /\ \A k \in DOMAIN ops : IsStepFalse(ops[k]) => k = Len(ops)
    /\ try_result.tag = "Ok" => (Len(ops) >= 1 /\ IsStepFalse(ops[Len(ops)]))
    /\ (Returned \/ Panicked \/ Aborted) \/ ENABLED CaptureNext

====
